---- MODULE Spec2Model ----
(***************************************************************************)
(* Command dispatch / acknowledgment protocol of the smart wall socket     *)
(* client (SmartSocketApp): the pending-command registry, the per-command  *)
(* timeout timer, the periodic expiry sweep, the acknowledgment listener   *)
(* and the delayed deletion of acknowledgment records.                     *)
(*                                                                         *)
(* Time.  Timers are counted in ticks of 5000 ms: the 10000 ms command     *)
(* timeout is 2 ticks, the 15000 ms expiry age 3 ticks, the sweep period   *)
(* and the acknowledgment grace delay 1 tick.  A timer that is due fires   *)
(* before time advances (Tick is disabled while a timer is due).           *)
(* Date.now() has millisecond resolution, finer than a tick: ms is the     *)
(* millisecond reading that generateCommandId embeds in an ID.  It moves   *)
(* forward with every tick and with every round trip through the device   *)
(* (a command reaching the device and its acknowledgment coming back takes *)
(* at least a millisecond); calls to sendCommandWithAck that follow each   *)
(* other without such an event read the same millisecond.                  *)
(*                                                                         *)
(* React state.  Every setPendingCommands(prev => ...) updater is applied  *)
(* atomically and in the order it was queued, so each updater is one step  *)
(* on the variable pendingCommands.                                        *)
(***************************************************************************)
EXTENDS Integers, Sequences, FiniteSets, TLC

\* ------------------------------------------------------------------ bounds
MaxCmds == 2
MaxTime == 5
MaxSuffix == 2

\* ------------------------------------------------------- program constants
\* setTimeout(..., 10000): the command timeout, in ticks
CommandTimeout == 2
\* now - cmd.timestamp > 15000: the expiry age, in ticks
ExpiryAge == 3
\* setInterval(..., 5000): the sweep period, in ticks
SweepPeriod == 1
\* setTimeout(..., 5000): the grace delay before an acknowledgment is deleted
AckGrace == 1

VARIABLES
  now,              \* Date.now(), in ticks
  ms,               \* Date.now(), the millisecond reading used in command IDs
  cmds,             \* one record per call of sendCommandWithAck (its closure)
  calls,            \* calls[h]: the invocations of resolve/reject of handle h
  pendingCommands,  \* the registry: commandId -> PendingCommand
  registeredIds,    \* every ID that was ever a key of the registry
  controls,         \* store path smartSocket/controls (a single slot)
  ackStore,         \* store path smartSocket/commandAck: key -> CommandAck
  acked,            \* IDs the device has acknowledged
  deleteTimers,     \* armed setTimeout(set(commandAck/<id>, null), 5000)
  sweepDue,         \* next firing of the cleanup interval
  \* --- liveness monitor, telemetry and alert listeners
  telemetryPath,    \* store path smartSocket/telemetry
  alertsPath,       \* store path smartSocket/alerts
  isConnected,      \* useState(false)
  lastDataReceived, \* useState(0): Date.now() of the last accepted telemetry
  connectionRetryCount, \* useState(0)
  latestTelemetry,  \* useRef(null): the last validated telemetry
  telemetry,        \* useState(null): the telemetry on display
  manualRelay,      \* useState(false): the relay state on display
  alerts,           \* useState([])
  throttle,         \* lodash throttle of the UI update: its 500 ms window
  subs,             \* live subscriptions made by setupFirebaseListeners
  effectRun,        \* connectionRetryCount as the listeners effect last saw it
  retryTimers,      \* armed setTimeout(setupFirebaseListeners, 2^n * 1000)
  checkDue,         \* next firing of the connection-monitoring interval
  \* --- schedule planner
  scheduleStart,    \* useState(''): the start time text input
  scheduleEnd,      \* useState(''): the end time text input
  schedule,         \* store path smartSocket/schedule
  scheduleWrites,   \* set() calls on the schedule path still in flight
  dialog,           \* the title of the last Alert.alert
  \* --- relay control
  manualCalls       \* calls of handleManualControl / handleToggleSwitch

commandVars == <<now, ms, cmds, calls, pendingCommands, registeredIds,
                 controls, ackStore, acked, deleteTimers, sweepDue>>
monitorVars == <<telemetryPath, alertsPath, isConnected, lastDataReceived,
                 connectionRetryCount, latestTelemetry, telemetry,
                 manualRelay, alerts, throttle, subs, effectRun, retryTimers,
                 checkDue>>
scheduleVars == <<scheduleStart, scheduleEnd, schedule, scheduleWrites>>
vars == <<commandVars, monitorVars, scheduleVars, dialog, manualCalls>>

\* ------------------------------------------------------------- data types
\* The relay command of handleManualControl; handleResetTrip sends
\* 'RESET_PROTECTION' through the same sendCommandWithAck.
CommandTypes == {"RELAY_CONTROL"}
\* Math.random().toString(36).substr(2, 9) is a draw from a finite alphabet.
\* Only the equality of two suffixes matters, so a draw is named by the
\* smallest unused number or by a number drawn before.
Suffixes == 1..(IF Len(cmds) + 1 < MaxSuffix THEN Len(cmds) + 1 ELSE MaxSuffix)
NoId == <<>>
ForeignId == <<0, 0>>
NoTimer == -1
None == [commandId |-> NoId, type |-> "", timestamp |-> 0]
NoAck == [commandId |-> NoId, result |-> "", processed |-> FALSE]
\* What the device reports in an acknowledgment (result, processed).
AckOutcomes == {[result |-> "OK", processed |-> TRUE]}

CommandAck(id, o) ==
  [commandId |-> id, result |-> o.result, processed |-> o.processed]

EmptyMap == [x \in {} |-> x]

Remove(f, k) == [x \in DOMAIN f \ {k} |-> f[x]]

\* the arguments the handle's callbacks are invoked with
Resolved(ack) == [cb |-> "resolve", why |-> "ack", type |-> "", ack |-> ack]
TimedOut(commandType) ==
  [cb |-> "reject", why |-> "timed out", type |-> commandType, ack |-> NoAck]
Expired == [cb |-> "reject", why |-> "expired", type |-> "", ack |-> NoAck]
WriteError == [cb |-> "reject", why |-> "write", type |-> "", ack |-> NoAck]

Invoke(c, h, call) == [c EXCEPT ![h] = Append(@, call)]

\* `cmd_${Date.now()}_${Math.random().toString(36).substr(2, 9)}`
generateCommandId(t, rnd) == <<t, rnd>>

\* Faulty variant: the registration is left out.
RegisterPendingDropped(prev, pendingCommand) == prev

\* new Map(prev).set(commandId, pendingCommand)
RegisterPending(prev, pendingCommand) ==
  [x \in DOMAIN prev \cup {pendingCommand.id} |->
     IF x = pendingCommand.id THEN pendingCommand ELSE prev[x]]

\* ------------------------------------------------------- JavaScript values
\* A value read from the store: a JSON scalar, a nested object, or nothing.
\* Number() can turn a string into an infinity, which no JSON number is.
Undefined == [t |-> "undefined", n |-> 0, s |-> "", b |-> FALSE]
JsNull == [t |-> "null", n |-> 0, s |-> "", b |-> FALSE]
Num(n) == [t |-> "number", n |-> n, s |-> "", b |-> FALSE]
NaN == [t |-> "number", n |-> 0, s |-> "NaN", b |-> FALSE]
PosInfinity == [t |-> "number", n |-> 0, s |-> "Infinity", b |-> FALSE]
NegInfinity == [t |-> "number", n |-> 0, s |-> "-Infinity", b |-> FALSE]
Str(s) == [t |-> "string", n |-> 0, s |-> s, b |-> FALSE]
Bool(b) == [t |-> "boolean", n |-> 0, s |-> "", b |-> b]
Obj == [t |-> "object", n |-> 0, s |-> "", b |-> FALSE]

IsFinite(v) == v.t = "number" /\ v.s = ""
isNaN(v) == v.t = "number" /\ v.s = "NaN"

\* if (value): false, 0, NaN, '', null and undefined are falsy
Truthy(v) ==
  CASE v.t = "undefined" -> FALSE
    [] v.t = "null" -> FALSE
    [] v.t = "boolean" -> v.b
    [] v.t = "number" -> v.s # "NaN" /\ (v.s # "" \/ v.n # 0)
    [] v.t = "string" -> v.s # ""
    [] OTHER -> TRUE

\* a < b on numbers: false when either side is NaN
Less(a, b) ==
  CASE isNaN(a) \/ isNaN(b) -> FALSE
    [] a = NegInfinity -> b # NegInfinity
    [] a = PosInfinity -> FALSE
    [] b = NegInfinity -> FALSE
    [] b = PosInfinity -> TRUE
    [] OTHER -> a.n < b.n

\* The decimal numerals among the strings of the model.
NumeralValue ==
  ("0" :> 0) @@ ("1" :> 1) @@ ("2" :> 2) @@ ("5" :> 5) @@ ("-3" :> -3)

\* Number(string): '' is 0, a numeral its value, 'Infinity' an infinity,
\* any other text NaN
StringToNumber(s) ==
  CASE s = "" -> Num(0)
    [] s \in DOMAIN NumeralValue -> Num(NumeralValue[s])
    [] s = "Infinity" -> PosInfinity
    [] s = "-Infinity" -> NegInfinity
    [] OTHER -> NaN

\* Number(value)
ToNumber(v) ==
  CASE v.t = "undefined" -> NaN
    [] v.t = "null" -> Num(0)
    [] v.t = "boolean" -> Num(IF v.b THEN 1 ELSE 0)
    [] v.t = "number" -> v
    [] v.t = "string" -> StringToNumber(v.s)
    [] OTHER -> NaN

\* parseInt(string): the leading numeral, NaN when there is none
\* ('Infinity' has none)
parseInt(s) ==
  CASE s \in DOMAIN NumeralValue -> Num(NumeralValue[s])
    [] s = "2pm" -> Num(2)
    [] OTHER -> NaN

\* String(value)
JsString(v) ==
  CASE v.t = "string" -> v.s
    [] v.t = "boolean" -> IF v.b THEN "true" ELSE "false"
    [] v.t = "number" /\ v.s # "" -> v.s
    [] v.t = "number" ->
         IF \E s \in DOMAIN NumeralValue : NumeralValue[s] = v.n
         THEN CHOOSE s \in DOMAIN NumeralValue : NumeralValue[s] = v.n
         ELSE "number"
    [] v.t = "undefined" -> "undefined"
    [] v.t = "null" -> "null"
    [] OTHER -> "[object Object]"

\* value.toLowerCase()
ToLowerCase(s) ==
  CASE s = "TRUE" -> "true"
    [] s = "True" -> "true"
    [] s = "FALSE" -> "false"
    [] OTHER -> s

\* Math.max(0, x)
MathMax0(x) == IF isNaN(x) THEN NaN ELSE IF Less(x, Num(0)) THEN Num(0) ELSE x

\* What a snapshot of a store path holds: nothing (null), a scalar, or an
\* object; f maps the keys of an object to their values.
NoData == [t |-> "null", f |-> EmptyMap]
ScalarData == [t |-> "string", f |-> EmptyMap]
ObjectData(f) == [t |-> "object", f |-> f]

\* ---------------------------------------------------- validateTelemetryData
\* One tick of `now` is 5000 ms, so Date.now() / 1000 is 5 seconds per tick.
TickSeconds == 5
\* parsed < now - 3600 || parsed > now + 3600
TimestampWindow == 3600
\* parseNumeric(data.voltage, 'voltage', 230)
DefaultVoltage == 230
\* parseNumeric(data.currentThreshold, 'currentThreshold', 10)
DefaultThreshold == 10

ClampedFields ==
  {"current", "power", "energy", "detectedWattage", "expectedCurrent"}
BooleanFields ==
  {"relayState", "deviceConnected", "scheduleActive", "scheduleStarted",
   "overcurrentTripped"}
TimestampFields == {"timestamp", "heartbeat"}
NumericFields ==
  ClampedFields \cup TimestampFields
    \cup {"voltage", "currentThreshold", "lastCommandTime"}
TelemetryFields == NumericFields \cup BooleanFields \cup {"lastCommandId"}

parseNumeric(value, defaultValue) ==
  IF value = JsNull \/ value = Undefined
  THEN defaultValue
  ELSE LET parsed == ToNumber(value)
       IN IF isNaN(parsed) THEN defaultValue ELSE parsed

\* Faulty variant: a string is compared as it is written.
parseBooleanExact(value, defaultValue) ==
  CASE value = JsNull \/ value = Undefined -> defaultValue
    [] value.t = "boolean" -> value.b
    [] value.t = "string" -> value.s = "true"
    [] value.t = "number" -> value # Num(0)
    [] OTHER -> defaultValue

parseBoolean(value, defaultValue) ==
  CASE value = JsNull \/ value = Undefined -> defaultValue
    [] value.t = "boolean" -> value.b
    [] value.t = "string" -> ToLowerCase(value.s) = "true"
    [] value.t = "number" -> value # Num(0)
    [] OTHER -> defaultValue

\* Faulty variant: the two ends of the window are turned down as well.
parseTimestampOpenWindow(value, t) ==
  LET nowSeconds == Num(t * TickSeconds)
      parsed == parseNumeric(value, nowSeconds)
  IN IF /\ Less(Num(t * TickSeconds - TimestampWindow), parsed)
        /\ Less(parsed, Num(t * TickSeconds + TimestampWindow))
     THEN parsed
     ELSE nowSeconds

parseTimestamp(value, t) ==
  LET nowSeconds == Num(t * TickSeconds)
      parsed == parseNumeric(value, nowSeconds)
  IN IF \/ Less(parsed, Num(t * TickSeconds - TimestampWindow))
        \/ Less(Num(t * TickSeconds + TimestampWindow), parsed)
     THEN nowSeconds
     ELSE parsed

\* null, or the validated record
NoTelemetry == [ok |-> FALSE, v |-> EmptyMap]

validateTelemetryData(data, t) ==
  IF data.t # "object"
  THEN NoTelemetry
  ELSE [ok |-> TRUE,
        v |-> [k \in TelemetryFields |->
                 CASE k \in ClampedFields ->
                        MathMax0(parseNumeric(data.f[k], Num(0)))
                   [] k = "voltage" ->
                        parseNumeric(data.f[k], Num(DefaultVoltage))
                   [] k = "currentThreshold" ->
                        MathMax0(parseNumeric(data.f[k], Num(DefaultThreshold)))
                   [] k = "lastCommandTime" -> parseNumeric(data.f[k], Num(0))
                   [] k \in TimestampFields -> parseTimestamp(data.f[k], t)
                   [] k \in BooleanFields ->
                        Bool(parseBoolean(data.f[k], FALSE))
                   [] OTHER ->
                        Str(IF Truthy(data.f[k]) THEN JsString(data.f[k])
                            ELSE "")]]

\* An object read from the telemetry path: a key that is absent reads as
\* undefined.
TelemetryObject(fields) ==
  ObjectData([k \in TelemetryFields |->
                IF k \in DOMAIN fields THEN fields[k] ELSE Undefined])

\* -------------------------------------------------------- validateAlertData
\* .slice(0, 10)
MaxAlertsShown == 10

\* One value of the alerts object: an object with the three fields (an
\* absent field reads as undefined), or a scalar.
AlertEntry(type, message, timestamp) ==
  [t |-> "object", type |-> type, message |-> message, timestamp |-> timestamp]
ScalarEntry ==
  [t |-> "string", type |-> Undefined, message |-> Undefined,
   timestamp |-> Undefined]

\* the predicate of .filter(...)
AlertKept(alert) ==
  /\ alert.t = "object"
  /\ Truthy(alert.type)
  /\ Truthy(alert.message)
  /\ Truthy(alert.timestamp)

\* the function of .map(...)
AlertMapped(alert) ==
  [type |-> JsString(alert.type),
   message |-> JsString(alert.message),
   timestamp |-> IF alert.timestamp.t = "string"
                 THEN parseInt(alert.timestamp.s)
                 ELSE ToNumber(alert.timestamp)]

MapSeq(Op(_), s) == [i \in DOMAIN s |-> Op(s[i])]

\* Insertion of x behind every element that is not smaller (stable).
InsertDesc(sorted, x) ==
  LET k == Cardinality({i \in DOMAIN sorted :
                          ~Less(sorted[i].timestamp, x.timestamp)})
  IN SubSeq(sorted, 1, k) \o <<x>> \o SubSeq(sorted, k + 1, Len(sorted))

RECURSIVE SortDesc(_)
SortDesc(s) ==
  IF s = <<>> THEN <<>>
  ELSE InsertDesc(SortDesc(SubSeq(s, 1, Len(s) - 1)), s[Len(s)])

RECURSIVE Perms(_)
Perms(s) ==
  IF s = <<>> THEN {<<>>}
  ELSE UNION {{<<s[i]>> \o p :
                 p \in Perms(SubSeq(s, 1, i - 1) \o SubSeq(s, i + 1, Len(s)))} :
              i \in DOMAIN s}

\* array.sort((a, b) => b.timestamp - a.timestamp): a stable sort when every
\* difference is a number.  A NaN timestamp makes the comparator answer NaN
\* (taken as "equal") against every element, which is not a consistent
\* order: the result is then some permutation, which one is up to the engine.
SortByTimestamp(s) ==
  IF \E i \in DOMAIN s : isNaN(s[i].timestamp)
  THEN Perms(s)
  ELSE {SortDesc(s)}

Slice(s, n) == SubSeq(s, 1, IF Len(s) < n THEN Len(s) ELSE n)

\* The arrays validateAlertData(data) can return.
validateAlertData(data) ==
  IF data.t # "object"
  THEN {<<>>}
  ELSE LET alertArray == MapSeq(AlertMapped, SelectSeq(data.f, AlertKept))
       IN {Slice(sorted, MaxAlertsShown) : sorted \in SortByTimestamp(alertArray)}

\* --------------------------------------------------------- schedule planner
\* A text input is the sequence of its characters.
\* The clock of new Date() is taken in a zone without daylight saving, so a
\* day is always 24 hours; midnight falls on the multiples of DayTicks.
MinuteTicks == 12
HourTicks == 720
DayTicks == 17280
\* minutes > 1440
MaxQuickMinutes == 1440

Digits == {"0", "1", "2", "3", "4", "5", "6", "7", "8", "9"}
DigitValue ==
  ("0" :> 0) @@ ("1" :> 1) @@ ("2" :> 2) @@ ("3" :> 3) @@ ("4" :> 4) @@
  ("5" :> 5) @@ ("6" :> 6) @@ ("7" :> 7) @@ ("8" :> 8) @@ ("9" :> 9)

\* timeString.trim()
RECURSIVE Trim(_)
Trim(s) ==
  IF s = <<>> THEN s
  ELSE IF s[1] = " " THEN Trim(Tail(s))
  ELSE IF s[Len(s)] = " " THEN Trim(SubSeq(s, 1, Len(s) - 1))
  ELSE s

\* Faulty variant: two digits, a colon and two digits, whatever the digits.
validateTimeFormatAnyDigits(timeString) ==
  LET c == Trim(timeString)
  IN /\ Len(c) = 5
     /\ c[3] = ":"
     /\ \A i \in {1, 2, 4, 5} : c[i] \in Digits

\* /^([0-1]?[0-9]|2[0-3]):[0-5][0-9]$/.test(timeString.trim())
validateTimeFormat(timeString) ==
  LET c == Trim(timeString)
      Minutes(i) == c[i] \in {"0", "1", "2", "3", "4", "5"} /\ c[i + 1] \in Digits
  IN \/ /\ Len(c) = 4
        /\ c[1] \in Digits
        /\ c[2] = ":"
        /\ Minutes(3)
     \/ /\ Len(c) = 5
        /\ \/ c[1] \in {"0", "1"} /\ c[2] \in Digits
           \/ c[1] = "2" /\ c[2] \in {"0", "1", "2", "3"}
        /\ c[3] = ":"
        /\ Minutes(4)

\* Number(part) for a part made of digits
RECURSIVE DecimalValue(_)
DecimalValue(part) ==
  IF part = <<>> THEN 0
  ELSE 10 * DecimalValue(SubSeq(part, 1, Len(part) - 1))
         + DigitValue[part[Len(part)]]

\* cleanTime.split(':'): the text before and the text after the first colon
\* (handleScheduleSet passes texts that validateTimeFormat accepted)
SplitAtColon(c) ==
  LET k == CHOOSE i \in DOMAIN c : c[i] = ":" /\ \A j \in 1..(i - 1) : c[j] # ":"
  IN <<SubSeq(c, 1, k - 1), SubSeq(c, k + 1, Len(c))>>

\* Faulty variant: a time of day that has passed is not moved to tomorrow.
parseTimeToTimestampToday(timeString, t) ==
  LET parts == SplitAtColon(Trim(timeString))
  IN (t \div DayTicks) * DayTicks + DecimalValue(parts[1]) * HourTicks
       + DecimalValue(parts[2]) * MinuteTicks

\* The result is in ticks (the code's milliseconds / 5000).
parseTimeToTimestamp(timeString, t) ==
  LET parts == SplitAtColon(Trim(timeString))
      hours == DecimalValue(parts[1])
      minutes == DecimalValue(parts[2])
      \* targetTime.setHours(hours, minutes, 0, 0)
      targetTime == (t \div DayTicks) * DayTicks + hours * HourTicks
                      + minutes * MinuteTicks
  IN IF targetTime <= t THEN targetTime + DayTicks ELSE targetTime

NoSchedule == [active |-> FALSE, startTime |-> 0, endTime |-> 0]

\* ------------------------------------------------------------------- Init
\* setInterval(..., 5000): the period of the connection check, in ticks
CheckPeriod == 1
\* now - lastDataReceived > 15000, in ticks
StaleAfter == 3
\* connectionRetryCount < 5
MaxRetries == 5

\* A subscription made by setupFirebaseListeners: rc is the value of
\* connectionRetryCount in the closure that made it, by tells whether the
\* effect or a backoff timer called setupFirebaseListeners, fresh whether the
\* first snapshots are still to be delivered.  Subscriptions that agree in
\* all three are not told apart.
Subscription(rc, by) == [rc |-> rc, by |-> by, fresh |-> TRUE]

NoDialog == ""

\* The state once the component is mounted and its effects have run, the
\* clock reading t, the store holding the given telemetry and alerts, and
\* the given texts typed into the schedule form.
InitOver(t, telemetryData, alertsData, startText, endText) ==
  /\ now = t
  /\ ms = 0
  /\ cmds = <<>>
  /\ calls = <<>>
  /\ pendingCommands = EmptyMap
  /\ registeredIds = {}
  /\ controls = None
  /\ ackStore = EmptyMap
  /\ acked = {}
  /\ deleteTimers = {}
  /\ sweepDue = t + SweepPeriod
  /\ telemetryPath = telemetryData
  /\ alertsPath = alertsData
  /\ isConnected = FALSE
  /\ lastDataReceived = 0
  /\ connectionRetryCount = 0
  /\ latestTelemetry = NoTelemetry
  /\ telemetry = NoTelemetry
  /\ manualRelay = FALSE
  /\ alerts = <<>>
  /\ throttle = "idle"
  /\ subs = {Subscription(0, "effect")}
  /\ effectRun = 0
  /\ retryTimers = {}
  /\ checkDue = t + CheckPeriod
  /\ scheduleStart = startText
  /\ scheduleEnd = endText
  /\ schedule = NoSchedule
  /\ scheduleWrites = <<>>
  /\ dialog = NoDialog
  /\ manualCalls = <<>>

InitAt(t) == InitOver(t, NoData, NoData, <<>>, <<>>)

Init == InitAt(0)

\* ------------------------------------------------------ sendCommandWithAck
\* The synchronous part of the promise executor: generate the ID, queue the
\* registration and call set() on the control path (the write is in flight).
sendCommandWithAck(commandType, rnd) ==
  /\ Len(cmds) < MaxCmds
  /\ LET commandId == generateCommandId(ms, rnd)
         h == Len(cmds) + 1
         pendingCommand == [id |-> commandId, type |-> commandType,
                            timestamp |-> now, h |-> h]
     IN /\ pendingCommands' = RegisterPending(pendingCommands, pendingCommand)
        /\ registeredIds' = registeredIds \cup DOMAIN pendingCommands'
        /\ cmds' = Append(cmds, [id |-> commandId, type |-> commandType,
                                 timestamp |-> now, pc |-> "writing",
                                 timerDue |-> NoTimer])
        /\ calls' = Append(calls, <<>>)
  /\ UNCHANGED <<now, ms, controls, ackStore, acked, deleteTimers, sweepDue>>

\* The store applies the write: the control path now holds this command.
WriteLand(h) ==
  /\ cmds[h].pc = "writing"
  /\ controls' = [commandId |-> cmds[h].id, type |-> cmds[h].type,
                  timestamp |-> cmds[h].timestamp]
  /\ cmds' = [cmds EXCEPT ![h].pc = "landed"]
  /\ UNCHANGED <<now, ms, calls, pendingCommands, registeredIds, ackStore,
                 acked, deleteTimers, sweepDue>>

\* await set(...) returns: the timeout timer is armed now.
WriteOk(h) ==
  /\ cmds[h].pc = "landed"
  /\ cmds' = [cmds EXCEPT ![h].pc = "armed",
                          ![h].timerDue = now + CommandTimeout]
  /\ UNCHANGED <<now, ms, calls, pendingCommands, registeredIds, controls,
                 ackStore, acked, deleteTimers, sweepDue>>

\* Faulty variant: the catch block leaves the entry in the registry.
WriteFailUpdaterKeepsEntry(prev, commandId) == prev

\* catch: newMap.delete(commandId)
WriteFailUpdater(prev, commandId) == Remove(prev, commandId)

\* await set(...) throws: the catch block.
WriteFail(h) ==
  /\ cmds[h].pc = "writing"
  /\ pendingCommands' = WriteFailUpdater(pendingCommands, cmds[h].id)
  /\ calls' = Invoke(calls, h, WriteError)
  /\ cmds' = [cmds EXCEPT ![h].pc = "failed"]
  /\ UNCHANGED <<now, ms, registeredIds, controls, ackStore, acked, deleteTimers, sweepDue>>

\* Faulty variant: the timer rejects the handle and leaves the entry.
TimeoutUpdaterKeepsEntry(st, h) ==
  LET commandId == cmds[h].id
  IN IF commandId \in DOMAIN st.reg
     THEN [reg |-> st.reg,
           calls |-> Invoke(st.calls, st.reg[commandId].h,
                            TimedOut(cmds[h].type))]
     ELSE st

\* The updater of the timeout timer, on st = [reg, calls]; h is the command
\* whose closure the timer belongs to.
TimeoutUpdater(st, h) ==
  LET commandId == cmds[h].id
  IN IF commandId \in DOMAIN st.reg
     THEN [reg |-> Remove(st.reg, commandId),
           calls |-> Invoke(st.calls, st.reg[commandId].h,
                            TimedOut(cmds[h].type))]
     ELSE st

TimeoutFire(h) ==
  /\ cmds[h].pc = "armed"
  /\ cmds[h].timerDue <= now
  /\ LET st == TimeoutUpdater([reg |-> pendingCommands, calls |-> calls], h)
     IN /\ pendingCommands' = st.reg
        /\ calls' = st.calls
  /\ cmds' = [cmds EXCEPT ![h].pc = "fired"]
  /\ UNCHANGED <<now, ms, registeredIds, controls, ackStore, acked, deleteTimers, sweepDue>>

\* Faulty variant: an entry is swept as soon as it has reached the expiry age.
SweepExpiredAtThreshold(prev) ==
  {id \in DOMAIN prev : now - prev[id].timestamp >= ExpiryAge}

\* The updater of the cleanup interval, on st = [reg, calls]: every entry
\* older than the expiry age is deleted and its reject is invoked.
SweepExpired(prev) ==
  {id \in DOMAIN prev : now - prev[id].timestamp > ExpiryAge}

SweepUpdater(st) ==
  LET old == SweepExpired(st.reg)
      hs == {st.reg[id].h : id \in old}
  IN [reg |-> [id \in DOMAIN st.reg \ old |-> st.reg[id]],
      calls |-> [h \in DOMAIN st.calls |->
                   IF h \in hs THEN Append(st.calls[h], Expired)
                   ELSE st.calls[h]]]

CleanupSweep ==
  /\ sweepDue <= now
  /\ LET st == SweepUpdater([reg |-> pendingCommands, calls |-> calls])
     IN /\ pendingCommands' = st.reg
        /\ calls' = st.calls
  /\ sweepDue' = now + SweepPeriod
  /\ UNCHANGED <<now, ms, cmds, registeredIds, controls, ackStore, acked, deleteTimers>>

\* ------------------------------------------------- acknowledgment listener
\* Faulty variant: the record is deleted without a grace delay.
AckDeleteDueNow(t) == t

\* setTimeout(() => set(commandAck/<id>, null), 5000): when the timer is due
AckDeleteDue(t) == t + AckGrace

\* Faulty variant: a match resolves the handle and leaves the entry.
AckUpdaterKeepsEntry(st, ack) ==
  IF ack.commandId \in DOMAIN st.reg
  THEN [reg |-> st.reg,
        calls |-> Invoke(st.calls, st.reg[ack.commandId].h, Resolved(ack)),
        timers |-> st.timers \cup
                   {[id |-> ack.commandId, since |-> now,
                     due |-> AckDeleteDue(now)]}]
  ELSE st

\* Faulty variant: the deletion is scheduled whether or not an entry matched.
AckUpdaterAlwaysSchedules(st, ack) ==
  LET timers == st.timers \cup {[id |-> ack.commandId, since |-> now,
                                 due |-> AckDeleteDue(now)]}
  IN IF ack.commandId \in DOMAIN st.reg
     THEN [reg |-> Remove(st.reg, ack.commandId),
           calls |-> Invoke(st.calls, st.reg[ack.commandId].h, Resolved(ack)),
           timers |-> timers]
     ELSE [st EXCEPT !.timers = timers]

\* The updater queued for one acknowledgment, on st = [reg, calls, timers].
AckUpdater(st, ack) ==
  IF ack.commandId \in DOMAIN st.reg
  THEN [reg |-> Remove(st.reg, ack.commandId),
        calls |-> Invoke(st.calls, st.reg[ack.commandId].h, Resolved(ack)),
        timers |-> st.timers \cup
                   {[id |-> ack.commandId, since |-> now,
                     due |-> AckDeleteDue(now)]}]
  ELSE st

\* if (ack && ack.commandId)
AckAccepted(ack) == ack.commandId # NoId

\* Object.values(data).forEach(...)
RECURSIVE AckForEach(_, _, _)
AckForEach(st, data, keys) ==
  IF keys = {} THEN st
  ELSE LET k == CHOOSE x \in keys : TRUE
           st1 == IF AckAccepted(data[k]) THEN AckUpdater(st, data[k]) ELSE st
       IN AckForEach(st1, data, keys \ {k})

\* The listener of onValue(ackRef, ...), called with the snapshot data: the
\* store calls it whenever the value of the acknowledgment path changes, and
\* again with the same value when it redelivers.
AckSnapshot(data) ==
  LET st == AckForEach([reg |-> pendingCommands, calls |-> calls,
                        timers |-> deleteTimers], data, DOMAIN data)
  IN /\ pendingCommands' = st.reg
     /\ calls' = st.calls
     /\ deleteTimers' = st.timers

\* The store delivers the value it delivered before once more.
AckListener ==
  /\ AckSnapshot(ackStore)
  /\ UNCHANGED <<now, ms, cmds, registeredIds, controls, ackStore, acked,
                 sweepDue>>

\* --------------------------------------------------------------- the device
\* The device reads the control path and writes the acknowledgment of the
\* command it found there under commandAck/<commandId>; the listener gets
\* the new value of the path.
DeviceAck(o) ==
  /\ controls # None
  /\ controls.commandId \notin acked
  /\ ackStore' = [k \in DOMAIN ackStore \cup {controls.commandId} |->
                    IF k = controls.commandId
                    THEN CommandAck(controls.commandId, o) ELSE ackStore[k]]
  /\ AckSnapshot(ackStore')
  /\ acked' = acked \cup {controls.commandId}
  /\ ms' = ms + 1
  /\ UNCHANGED <<now, cmds, registeredIds, controls, sweepDue>>

\* A record on the acknowledgment path that answers no command of this
\* client: its commandId is an ID this client never generated.
ForeignAck ==
  /\ ForeignId \notin DOMAIN ackStore
  /\ ackStore' = [k \in DOMAIN ackStore \cup {ForeignId} |->
                    IF k = ForeignId
                    THEN [commandId |-> ForeignId, result |-> "OK",
                          processed |-> TRUE]
                    ELSE ackStore[k]]
  /\ AckSnapshot(ackStore')
  /\ UNCHANGED <<now, ms, cmds, registeredIds, controls, acked, sweepDue>>

\* set(ref(database, `smartSocket/commandAck/${ack.commandId}`), null): the
\* grace timer fires; the listener gets the new value of the path.
DeleteAck(t) ==
  /\ t \in deleteTimers
  /\ t.due <= now
  /\ ackStore' = Remove(ackStore, t.id)
  /\ LET st == AckForEach([reg |-> pendingCommands, calls |-> calls,
                           timers |-> deleteTimers \ {t}],
                          ackStore', DOMAIN ackStore')
     IN /\ pendingCommands' = st.reg
        /\ calls' = st.calls
        /\ deleteTimers' = st.timers
  /\ UNCHANGED <<now, ms, cmds, registeredIds, controls, acked, sweepDue>>

\* ------------------------------------------------------------------- time
TimerDue ==
  \/ sweepDue <= now
  \/ \E h \in DOMAIN cmds : cmds[h].pc = "armed" /\ cmds[h].timerDue <= now
  \/ \E t \in deleteTimers : t.due <= now

Tick ==
  /\ now < MaxTime
  /\ ~TimerDue
  /\ now' = now + 1
  /\ ms' = ms + 1
  /\ UNCHANGED <<cmds, calls, pendingCommands, registeredIds, controls,
                 ackStore, acked, deleteTimers, sweepDue>>

\* The command protocol on its own: the rest of the component stands still.
appVars == <<monitorVars, scheduleVars, dialog, manualCalls>>

Next ==
  \/ \E t \in CommandTypes, r \in Suffixes :
       sendCommandWithAck(t, r) /\ UNCHANGED appVars
  \/ \E h \in DOMAIN cmds : WriteLand(h) /\ UNCHANGED appVars
  \/ \E h \in DOMAIN cmds : WriteOk(h) /\ UNCHANGED appVars
  \/ \E h \in DOMAIN cmds : WriteFail(h) /\ UNCHANGED appVars
  \/ \E h \in DOMAIN cmds : TimeoutFire(h) /\ UNCHANGED appVars
  \/ CleanupSweep /\ UNCHANGED appVars
  \/ \E o \in AckOutcomes : DeviceAck(o) /\ UNCHANGED appVars
  \/ ForeignAck /\ UNCHANGED appVars
  \/ AckListener /\ UNCHANGED appVars
  \/ \E t \in deleteTimers : DeleteAck(t) /\ UNCHANGED appVars
  \/ Tick /\ UNCHANGED appVars

Spec == Init /\ [][Next]_vars

\* ------------------------------------------- telemetry and alert listeners
\* monitorVars without isConnected
listenerVars == <<telemetryPath, alertsPath, lastDataReceived,
                  connectionRetryCount, latestTelemetry, telemetry,
                  manualRelay, alerts, throttle, subs, effectRun,
                  retryTimers, checkDue>>

\* Alert.alert('Connection Error', userMessage)
ConnectionError == "Connection Error"

\* The listeners effect has run for the current connectionRetryCount, and
\* every subscription has delivered its first snapshots.
EffectSettled == effectRun = connectionRetryCount
SubsSettled == EffectSettled /\ \A s \in subs : ~s.fresh

\* handleFirebaseError(error, operation)
handleFirebaseError ==
  /\ dialog' = ConnectionError
  /\ isConnected' = FALSE

\* Faulty variant: the update on display leaves the relay state alone.
updateUIKeepsRelay(latest) ==
  IF throttle = "idle"
  THEN /\ telemetry' = latest
       /\ throttle' = "open"
       /\ UNCHANGED manualRelay
  ELSE /\ throttle' = "trailing"
       /\ UNCHANGED <<telemetry, manualRelay>>

\* updateUI(): throttle(..., 500, {leading: true, trailing: true}).  A call
\* outside the window runs the update and opens the window; a call inside
\* it is put off to the end of the window.
updateUI(latest) ==
  IF throttle = "idle"
  THEN /\ telemetry' = latest
       /\ manualRelay' = latest.v["relayState"].b
       /\ throttle' = "open"
  ELSE /\ throttle' = "trailing"
       /\ UNCHANGED <<telemetry, manualRelay>>

\* The end of the 500 ms window: the update that was put off runs with the
\* telemetry that is the latest by then, and a new window opens.
ThrottleTimer ==
  /\ throttle # "idle"
  /\ IF throttle = "trailing"
     THEN /\ telemetry' = latestTelemetry
          /\ manualRelay' = latestTelemetry.v["relayState"].b
          /\ throttle' = "open"
     ELSE /\ throttle' = "idle"
          /\ UNCHANGED <<telemetry, manualRelay>>
  /\ UNCHANGED <<telemetryPath, alertsPath, isConnected, lastDataReceived,
                 connectionRetryCount, latestTelemetry, alerts, subs,
                 effectRun, retryTimers, checkDue, scheduleVars, dialog>>

\* Faulty variant: an accepted update does not reset connectionRetryCount.
TelemetryCallbackKeepsRetryCount(data) ==
  LET validated == validateTelemetryData(data, now)
  IN IF data.t # "null" /\ validated.ok
     THEN /\ isConnected' = TRUE
          /\ lastDataReceived' = now
          /\ latestTelemetry' = validated
          /\ updateUI(validated)
          /\ checkDue' = now + CheckPeriod
          /\ UNCHANGED connectionRetryCount
     ELSE UNCHANGED <<isConnected, lastDataReceived, connectionRetryCount,
                      latestTelemetry, telemetry, manualRelay, throttle,
                      checkDue>>

\* The callback of onValue(telemetryRef, ...).  The connection-monitoring
\* effect depends on lastDataReceived, so its interval restarts.
TelemetryCallback(data) ==
  LET validated == validateTelemetryData(data, now)
  IN IF data.t # "null" /\ validated.ok
     THEN /\ isConnected' = TRUE
          /\ lastDataReceived' = now
          /\ connectionRetryCount' = 0
          /\ latestTelemetry' = validated
          /\ updateUI(validated)
          /\ checkDue' = now + CheckPeriod
     ELSE UNCHANGED <<isConnected, lastDataReceived, connectionRetryCount,
                      latestTelemetry, telemetry, manualRelay, throttle,
                      checkDue>>

\* The callback of onValue(alertsRef, ...)
AlertsCallback(data) == alerts' \in validateAlertData(data)

\* The device (or anyone) writes the telemetry path; the store hands the
\* new value to the subscriptions.
PublishTelemetry(data) ==
  /\ SubsSettled
  /\ telemetryPath' = data
  /\ IF subs # {}
     THEN TelemetryCallback(data)
     ELSE UNCHANGED <<isConnected, lastDataReceived, connectionRetryCount,
                      latestTelemetry, telemetry, manualRelay, throttle,
                      checkDue>>
  /\ UNCHANGED <<alertsPath, alerts, subs, effectRun, retryTimers,
                 scheduleVars, dialog>>

PublishAlerts(data) ==
  /\ SubsSettled
  /\ alertsPath' = data
  /\ IF subs # {} THEN AlertsCallback(data) ELSE UNCHANGED alerts
  /\ UNCHANGED <<telemetryPath, isConnected, lastDataReceived,
                 connectionRetryCount, latestTelemetry, telemetry,
                 manualRelay, throttle, subs, effectRun, retryTimers,
                 checkDue, scheduleVars, dialog>>

\* A new subscription is handed the current value of its paths.
InitialSnapshots(s) ==
  /\ EffectSettled
  /\ s \in subs
  /\ s.fresh
  /\ TelemetryCallback(telemetryPath)
  /\ AlertsCallback(alertsPath)
  /\ subs' = (subs \ {s}) \cup {[s EXCEPT !.fresh = FALSE]}
  /\ UNCHANGED <<telemetryPath, alertsPath, effectRun, retryTimers,
                 scheduleVars, dialog>>

\* ------------------------------------------------------- liveness monitor
MaxErrors == 2

\* Math.pow(2, connectionRetryCount) * 1000 ms, in whole ticks
BackoffTicks(rc) == (2 ^ rc) \div TickSeconds

\* The error callback of the telemetry subscription s; the store has
\* cancelled s.  The callback reads connectionRetryCount from its closure.
SubscriptionError(s) ==
  /\ SubsSettled
  /\ s \in subs
  /\ handleFirebaseError
  /\ connectionRetryCount' = connectionRetryCount + 1
  /\ retryTimers' =
       IF s.rc < MaxRetries
       THEN retryTimers \cup {[rc |-> s.rc, due |-> now + BackoffTicks(s.rc)]}
       ELSE retryTimers
  /\ subs' = subs \ {s}
  /\ UNCHANGED <<telemetryPath, alertsPath, lastDataReceived,
                 latestTelemetry, telemetry, manualRelay, alerts, throttle,
                 effectRun, checkDue, scheduleVars>>

\* setupFirebaseListeners() called by `by` from the closure of rc: either
\* the subscriptions are made, or onValue throws and the catch block runs.
SetupListeners(base, rc, by) ==
  \/ /\ subs' = base \cup {Subscription(rc, by)}
     /\ UNCHANGED <<isConnected, dialog>>
  \/ /\ subs' = base
     /\ handleFirebaseError

\* The listeners effect runs again when connectionRetryCount has changed:
\* the cleanup of the previous run unsubscribes what that run subscribed,
\* then setupFirebaseListeners is called.
ListenersEffect ==
  /\ ~EffectSettled
  /\ SetupListeners({s \in subs : ~(s.rc = effectRun /\ s.by = "effect")},
                    connectionRetryCount, "effect")
  /\ effectRun' = connectionRetryCount
  /\ UNCHANGED <<telemetryPath, alertsPath, lastDataReceived,
                 connectionRetryCount, latestTelemetry, telemetry,
                 manualRelay, alerts, throttle, retryTimers, checkDue,
                 scheduleVars>>

\* A backoff timer fires: setupFirebaseListeners of the closure that armed it.
RetryFire(tm) ==
  /\ EffectSettled
  /\ tm \in retryTimers
  /\ tm.due <= now
  /\ retryTimers' = retryTimers \ {tm}
  /\ SetupListeners(subs, tm.rc, "timer")
  /\ UNCHANGED <<telemetryPath, alertsPath, lastDataReceived,
                 connectionRetryCount, latestTelemetry, telemetry,
                 manualRelay, alerts, throttle, effectRun, checkDue,
                 scheduleVars>>

\* Faulty variant: the silence has to last twice as long.
StaleLate(last, t) == last > 0 /\ t - last > 2 * StaleAfter

\* lastDataReceived > 0 && now - lastDataReceived > 15000
Stale(last, t) == last > 0 /\ t - last > StaleAfter

\* The callback of the connection-monitoring interval.
ConnectionCheck ==
  /\ checkDue <= now
  /\ checkDue' = now + CheckPeriod
  /\ isConnected' = IF Stale(lastDataReceived, now) THEN FALSE ELSE isConnected
  /\ UNCHANGED <<telemetryPath, alertsPath, lastDataReceived,
                 connectionRetryCount, latestTelemetry, telemetry,
                 manualRelay, alerts, throttle, subs, effectRun,
                 retryTimers, scheduleVars, dialog>>

MonitorTimerDue ==
  \/ checkDue <= now
  \/ throttle # "idle"
  \/ \E tm \in retryTimers : tm.due <= now
  \/ ~SubsSettled

\* Five seconds pass on the mounted component, no timer being due.
MonitorTick ==
  /\ now < MaxTime
  /\ ~MonitorTimerDue
  /\ now' = now + 1
  /\ ms' = ms + 1
  /\ UNCHANGED <<monitorVars, scheduleVars, dialog>>

\* -------------------------------------------------------- schedule handlers
MaxWrites == 1

\* the messages of the Alert.alert calls of the schedule handlers
BothTimesNeeded == "Please set both start and end times"
UseTimeFormat == "Please use HH:MM format (e.g., 14:30)"
DurationTooLong == "Schedule duration cannot exceed 24 hours"
DurationOutOfRange == "Duration must be between 1 and 1440 minutes"
Success == "Success"

\* set(ref(database, path), value) is called: the write is in flight.
ScheduleWrite(op, value) ==
  [op |-> op, value |-> value]

\* handleScheduleSet up to its await
handleScheduleSet ==
  /\ Len(scheduleWrites) < MaxWrites
  /\ IF Trim(scheduleStart) = <<>> \/ Trim(scheduleEnd) = <<>>
     THEN dialog' = BothTimesNeeded /\ UNCHANGED scheduleWrites
     ELSE IF ~validateTimeFormat(scheduleStart) \/ ~validateTimeFormat(scheduleEnd)
     THEN dialog' = UseTimeFormat /\ UNCHANGED scheduleWrites
     ELSE LET startTime == parseTimeToTimestamp(scheduleStart, now)
              parsedEnd == parseTimeToTimestamp(scheduleEnd, now)
              endTime == IF parsedEnd <= startTime
                         THEN parsedEnd + DayTicks
                         ELSE parsedEnd
          IN IF endTime - startTime > DayTicks
             THEN dialog' = DurationTooLong /\ UNCHANGED scheduleWrites
             ELSE /\ scheduleWrites' =
                       Append(scheduleWrites,
                              ScheduleWrite("set",
                                [active |-> TRUE,
                                 startTime |-> startTime * TickSeconds,
                                 endTime |-> endTime * TickSeconds]))
                  /\ UNCHANGED dialog
  /\ UNCHANGED <<monitorVars, scheduleStart, scheduleEnd, schedule>>

\* handleQuickSchedule(minutes) up to its await
handleQuickSchedule(minutes) ==
  /\ Len(scheduleWrites) < MaxWrites
  /\ IF minutes <= 0 \/ minutes > MaxQuickMinutes
     THEN dialog' = DurationOutOfRange /\ UNCHANGED scheduleWrites
     ELSE LET startTime == now * TickSeconds
          IN /\ scheduleWrites' =
                  Append(scheduleWrites,
                         ScheduleWrite("quick",
                           [active |-> TRUE, startTime |-> startTime,
                            endTime |-> startTime + minutes * 60]))
             /\ UNCHANGED dialog
  /\ UNCHANGED <<monitorVars, scheduleStart, scheduleEnd, schedule>>

\* handleCancelSchedule up to its await: set(.../schedule/active, false)
handleCancelSchedule ==
  /\ Len(scheduleWrites) < MaxWrites
  /\ scheduleWrites' =
       Append(scheduleWrites,
              ScheduleWrite("cancel", NoSchedule))
  /\ UNCHANGED <<monitorVars, scheduleStart, scheduleEnd, schedule, dialog>>

\* The oldest write in flight succeeds: the store holds the value and the
\* handler goes on behind its await.
ScheduleWriteOk ==
  /\ scheduleWrites # <<>>
  /\ LET w == Head(scheduleWrites)
     IN /\ schedule' = IF w.op = "cancel"
                       THEN [schedule EXCEPT !.active = FALSE]
                       ELSE w.value
        /\ IF w.op = "set"
           THEN scheduleStart' = <<>> /\ scheduleEnd' = <<>>
           ELSE UNCHANGED <<scheduleStart, scheduleEnd>>
  /\ scheduleWrites' = Tail(scheduleWrites)
  /\ dialog' = Success
  /\ UNCHANGED monitorVars

\* The oldest write in flight fails: the catch block of its handler runs.
ScheduleWriteFail ==
  /\ scheduleWrites # <<>>
  /\ scheduleWrites' = Tail(scheduleWrites)
  /\ handleFirebaseError
  /\ UNCHANGED <<listenerVars, scheduleStart, scheduleEnd, schedule>>

\* ------------------------------------------------ the monitor on its own
\* The mounted component with its listeners and its connection check; no
\* command is sent and no schedule is set.
registryVars == <<cmds, calls, pendingCommands, registeredIds, controls,
                  ackStore, acked, deleteTimers, sweepDue>>

\* Date.now() is positive: the component is mounted one tick after the epoch.
BootTime == 1

OnTelemetry == ("relayState" :> Bool(TRUE)) @@ ("current" :> Num(5))
OffTelemetry == ("relayState" :> Bool(FALSE))
MonitorTelemetry == {NoData, ScalarData, TelemetryObject(OnTelemetry)}

TripAlert == AlertEntry(Str("OVERCURRENT"), Str("tripped"), Num(5))
MonitorAlerts == {NoData, ScalarData, ObjectData(<<ScalarEntry, TripAlert>>)}

MonitorInit == InitAt(BootTime)

MonitorNext ==
  \/ \E data \in MonitorTelemetry :
       PublishTelemetry(data) /\ UNCHANGED <<now, ms, registryVars, manualCalls>>
  \/ \E data \in MonitorAlerts :
       PublishAlerts(data) /\ UNCHANGED <<now, ms, registryVars, manualCalls>>
  \/ \E s \in subs :
       InitialSnapshots(s) /\ UNCHANGED <<now, ms, registryVars, manualCalls>>
  \/ \E s \in subs :
       /\ connectionRetryCount < MaxErrors
       /\ SubscriptionError(s)
       /\ UNCHANGED <<now, ms, registryVars, manualCalls>>
  \/ ListenersEffect /\ UNCHANGED <<now, ms, registryVars, manualCalls>>
  \/ \E tm \in retryTimers :
       RetryFire(tm) /\ UNCHANGED <<now, ms, registryVars, manualCalls>>
  \/ ConnectionCheck /\ UNCHANGED <<now, ms, registryVars, manualCalls>>
  \/ ThrottleTimer /\ UNCHANGED <<now, ms, registryVars, manualCalls>>
  \/ MonitorTick /\ UNCHANGED <<registryVars, manualCalls>>

SpecMonitor == MonitorInit /\ [][MonitorNext]_vars

\* ---------------------------------------- the listeners on a failing backend
\* The telemetry path stays empty and the subscriptions keep failing.
MaxRetryErrors == 6

RetryNext ==
  \/ \E s \in subs :
       InitialSnapshots(s) /\ UNCHANGED <<now, ms, registryVars, manualCalls>>
  \/ \E s \in subs :
       /\ connectionRetryCount < MaxRetryErrors
       /\ SubscriptionError(s)
       /\ UNCHANGED <<now, ms, registryVars, manualCalls>>
  \/ ListenersEffect /\ UNCHANGED <<now, ms, registryVars, manualCalls>>
  \/ \E tm \in retryTimers :
       RetryFire(tm) /\ UNCHANGED <<now, ms, registryVars, manualCalls>>
  \/ ConnectionCheck /\ UNCHANGED <<now, ms, registryVars, manualCalls>>
  \/ MonitorTick /\ UNCHANGED <<registryVars, manualCalls>>

SpecRetry == MonitorInit /\ [][RetryNext]_vars

\* ------------------------------------------------- the sanitizer's inputs
\* Telemetry objects with one field set to each kind of value a store can
\* hand over, every other field absent.
SanitizerValues ==
  {Undefined, JsNull, Num(0), Num(5), Num(-3), Str("5"), Str("-3"), Str(""),
   Str("abc"), Str("Infinity"), Str("-Infinity"), Str("true"), Str("TRUE"),
   Str("false"), Bool(TRUE), Bool(FALSE), Obj}

SanitizerInputs ==
  {NoData, ScalarData}
    \cup {TelemetryObject(k :> v) : k \in TelemetryFields, v \in SanitizerValues}

\* The store holds one of the inputs when the component is mounted; the
\* telemetry listener is handed it as its first snapshot.
SanitizeInit == \E data \in SanitizerInputs : InitOver(BootTime, data, NoData, <<>>, <<>>)

SanitizeNext ==
  \/ \E s \in subs :
       InitialSnapshots(s) /\ UNCHANGED <<now, ms, registryVars, manualCalls>>
  \/ ThrottleTimer /\ UNCHANGED <<now, ms, registryVars, manualCalls>>

SpecSanitize == SanitizeInit /\ [][SanitizeNext]_vars

\* ------------------------------------------------ the time fields' inputs
\* Date.now() of a component mounted later than one hour after the epoch,
\* in ticks.
LaterBootTime == 1000

\* The two ends of the window around now, the seconds next to them, now
\* itself, and values that are no numbers.
TimestampValues ==
  LET nowSeconds == LaterBootTime * TickSeconds
  IN {Num(nowSeconds), Num(nowSeconds - TimestampWindow),
      Num(nowSeconds + TimestampWindow), Num(nowSeconds - TimestampWindow - 1),
      Num(nowSeconds + TimestampWindow + 1), Num(0), Undefined, JsNull,
      Str(""), Str("abc"), Str("5"), Str("Infinity"), Str("-Infinity"),
      Bool(TRUE), Obj}

TimestampInputs ==
  {TelemetryObject(("timestamp" :> v) @@ ("heartbeat" :> w)) :
     v \in TimestampValues, w \in TimestampValues}

TimestampInit ==
  \E data \in TimestampInputs : InitOver(LaterBootTime, data, NoData, <<>>, <<>>)

SpecTimestamp == TimestampInit /\ [][SanitizeNext]_vars

\* ------------------------------------------- the alert aggregator's inputs
MaxAlerts == 11
MaxMixed == 2

\* n well-formed alerts, the oldest first
AscendingBatch(n) ==
  ObjectData([i \in 1..n |-> AlertEntry(Str("OVERCURRENT"), Str("tripped"), Num(i))])

\* Values of an alerts object: well-formed ones, with a number or a string
\* as timestamp, and ones with a field that is absent, empty, zero or text.
AlertEntries ==
  {TripAlert,
   AlertEntry(Str("SCHEDULE"), Str("started"), Num(2)),
   AlertEntry(Str("SCHEDULE"), Str("ended"), Str("2")),
   AlertEntry(Str("SCHEDULE"), Str("ended"), Str("soon")),
   AlertEntry(Str("SCHEDULE"), Str("ended"), Num(0)),
   AlertEntry(Undefined, Str("tripped"), Num(1)),
   AlertEntry(Str("OVERCURRENT"), Str(""), Num(1)),
   ScalarEntry}

MixedBatches ==
  UNION {{ObjectData(f) : f \in [1..n -> AlertEntries]} : n \in 0..MaxMixed}

AlertBatches ==
  {NoData, ScalarData} \cup MixedBatches
    \cup {AscendingBatch(n) : n \in 1..MaxAlerts}

\* The store holds one of the batches when the component is mounted; the
\* alerts listener is handed it as its first snapshot.
AlertsInit == \E data \in AlertBatches : InitOver(BootTime, NoData, data, <<>>, <<>>)

AlertsNext ==
  \E s \in subs :
    InitialSnapshots(s) /\ UNCHANGED <<now, ms, registryVars, manualCalls>>

SpecAlerts == AlertsInit /\ [][AlertsNext]_vars

\* ------------------------------------------------ the schedule form's inputs
\* Texts of the two inputs: times of day, with one or two hour digits and
\* with blanks around them, and texts that are no time of day.
TimeTexts ==
  {<<"2", "3", ":", "5", "0">>, <<"0", "0", ":", "1", "0">>,
   <<"0", "0", ":", "0", "0">>, <<"1", "2", ":", "0", "0">>,
   <<"7", ":", "0", "5">>, <<" ", "9", ":", "3", "0", " ">>,
   <<"2", "5", ":", "0", "0">>, <<"2", "4", ":", "0", "0">>,
   <<"1", "2", ":", "6", "0">>, <<"1", "2", ":", "5">>,
   <<"1", "2", "0", "0">>, <<"a", "b", ":", "c", "d">>,
   <<" ", " ">>, <<>>}

\* Readings of the clock on the second day after the epoch: at and around
\* midnight, 00:10, noon and 23:50.
ClockSamples ==
  {DayTicks + d : d \in {0, 1, 120, 8640, 17159, 17160, 17279}}

\* handleQuickSchedule(minutes): the four buttons pass 15, 30, 60 and 120
QuickMinutes == {-5, 0, 15, 120, 1440, 1441}

ScheduleInit ==
  \E t \in ClockSamples, startText \in TimeTexts, endText \in TimeTexts :
    InitOver(t, NoData, NoData, startText, endText)

ScheduleNext ==
  \/ handleScheduleSet /\ UNCHANGED <<commandVars, manualCalls>>
  \/ \E minutes \in QuickMinutes :
       handleQuickSchedule(minutes) /\ UNCHANGED <<commandVars, manualCalls>>
  \/ handleCancelSchedule /\ UNCHANGED <<commandVars, manualCalls>>
  \/ ScheduleWriteOk /\ UNCHANGED <<commandVars, manualCalls>>
  \/ ScheduleWriteFail /\ UNCHANGED <<commandVars, manualCalls>>

SpecSchedule == ScheduleInit /\ [][ScheduleNext]_vars

\* ------------------------------------------------------------ relay control
MaxPresses == 1

\* What the device can answer to a relay command.
ManualOutcomes ==
  {[result |-> "OK", processed |-> TRUE],
   [result |-> "BLOCKED_PROTECTION_ACTIVE", processed |-> FALSE],
   [result |-> "NO_CHANGE_REQUIRED", processed |-> FALSE]}

\* Faulty variant: the handler takes the connection for granted.
OfflineNever == FALSE

\* if (!isConnected)
Offline == ~isConnected

\* handleManualControl(value) up to its await: the promise of
\* sendCommandWithAck is handle h.
handleManualControl(value, rnd) ==
  IF Offline
  THEN /\ dialog' = ConnectionError
       /\ UNCHANGED <<commandVars, monitorVars, scheduleVars, manualCalls>>
  ELSE /\ sendCommandWithAck("RELAY_CONTROL", rnd)
       /\ manualCalls' = Append(manualCalls,
                                [h |-> Len(cmds) + 1, value |-> value,
                                 done |-> FALSE])
       /\ UNCHANGED <<monitorVars, scheduleVars, dialog>>

\* Faulty variant: the registry is never taken to be busy.
RegistryBusyNever == FALSE

\* pendingCommands.size > 0
RegistryBusy == pendingCommands # EmptyMap

\* onPress={() => handleManualControl(!manualRelay)}.  The button is
\* disabled while a command is pending, which the handler does not test;
\* that it is disabled without a connection the handler tests again.
PressSwitch(rnd) ==
  /\ ~RegistryBusy
  /\ Len(manualCalls) < MaxPresses
  /\ handleManualControl(~manualRelay, rnd)

\* The promise is settled by the first call of resolve or reject.
Settlement(h) == calls[h][1]

\* The relay state on display once handleManualControl is through, the
\* promise being settled with `first`.
RelayAfterControl(value, first) ==
  IF first.cb = "resolve"
  THEN IF first.ack.processed THEN value
       ELSE IF first.ack.result # "NO_CHANGE_REQUIRED" THEN ~value
       ELSE manualRelay
  ELSE ~value

\* the title of the Alert.alert of each branch
ControlDialog(first) ==
  IF first.cb = "resolve"
  THEN IF first.ack.processed THEN "Success"
       ELSE IF first.ack.result = "BLOCKED_PROTECTION_ACTIVE"
       THEN "Operation Blocked"
       ELSE IF first.ack.result = "NO_CHANGE_REQUIRED" THEN "No Change"
       ELSE "Command Not Processed"
  ELSE IF first.why = "timed out" THEN "Timeout" ELSE "Error"

\* handleManualControl behind its await
ManualControlResume(i) ==
  /\ i \in DOMAIN manualCalls
  /\ ~manualCalls[i].done
  /\ calls[manualCalls[i].h] # <<>>
  /\ LET first == Settlement(manualCalls[i].h)
     IN /\ manualRelay' = RelayAfterControl(manualCalls[i].value, first)
        /\ dialog' = ControlDialog(first)
  /\ manualCalls' = [manualCalls EXCEPT ![i].done = TRUE]
  /\ UNCHANGED <<commandVars, scheduleVars, telemetryPath, alertsPath,
                 isConnected, lastDataReceived, connectionRetryCount,
                 latestTelemetry, telemetry, alerts, throttle, subs,
                 effectRun, retryTimers, checkDue>>

ManualTelemetry == {TelemetryObject(OnTelemetry), TelemetryObject(OffTelemetry)}

ManualNext ==
  \/ \E data \in ManualTelemetry :
       PublishTelemetry(data) /\ UNCHANGED <<now, ms, registryVars, manualCalls>>
  \/ \E s \in subs :
       InitialSnapshots(s) /\ UNCHANGED <<now, ms, registryVars, manualCalls>>
  \/ ThrottleTimer /\ UNCHANGED <<now, ms, registryVars, manualCalls>>
  \/ \E r \in Suffixes : PressSwitch(r)
  \/ \E i \in DOMAIN manualCalls : ManualControlResume(i)
  \/ \E h \in DOMAIN cmds : WriteLand(h) /\ UNCHANGED appVars
  \/ \E h \in DOMAIN cmds : WriteOk(h) /\ UNCHANGED appVars
  \/ \E h \in DOMAIN cmds : WriteFail(h) /\ UNCHANGED appVars
  \/ \E h \in DOMAIN cmds : TimeoutFire(h) /\ UNCHANGED appVars
  \/ CleanupSweep /\ UNCHANGED appVars
  \/ \E o \in ManualOutcomes : DeviceAck(o) /\ UNCHANGED appVars
  \/ \E t \in deleteTimers : DeleteAck(t) /\ UNCHANGED appVars
  \/ Tick /\ throttle = "idle" /\ SubsSettled /\ UNCHANGED appVars

SpecManual == MonitorInit /\ [][ManualNext]_vars

\* ------------------------------------------- the simple client (index.tsx)
\* The simple client has the registry, the control path, the telemetry
\* listener and the connection monitor; it has no acknowledgment listener,
\* no cleanup interval and no alerts.  Its code for registering a command,
\* for a failed write, for the timeout timer, for the throttled update and
\* for the connection monitor is that of the full client, so those steps
\* are shared.  The effect that copies telemetry.relayState into
\* manualRelay runs with the render that follows setTelemetry.
MaxUptime == 6

SimpleFields ==
  {"current", "power", "voltage", "energy", "relayState", "timestamp"}

\* parseBoolean of index.tsx: only a boolean is taken
parseBooleanStrict(value, defaultValue) ==
  IF value = JsNull \/ value = Undefined THEN defaultValue
  ELSE IF value.t = "boolean" THEN value.b
  ELSE defaultValue

\* validateTelemetryData of index.tsx
validateTelemetryDataSimple(data, t) ==
  IF data.t # "object"
  THEN NoTelemetry
  ELSE [ok |-> TRUE,
        v |-> [k \in SimpleFields |->
                 CASE k \in {"current", "power", "energy"} ->
                        MathMax0(parseNumeric(data.f[k], Num(0)))
                   [] k = "voltage" ->
                        parseNumeric(data.f[k], Num(DefaultVoltage))
                   [] k = "relayState" ->
                        Bool(parseBooleanStrict(data.f[k], FALSE))
                   [] OTHER ->
                        parseNumeric(data.f[k], Num(t * TickSeconds))]]

\* The callback of onValue(telemetryRef, ...)
SimpleTelemetryCallback(data) ==
  LET validatedData == validateTelemetryDataSimple(data, now)
  IN IF data.t # "null" /\ validatedData.ok
     THEN /\ isConnected' = TRUE
          /\ lastDataReceived' = now
          /\ latestTelemetry' = validatedData
          /\ updateUI(validatedData)
          /\ checkDue' = now + CheckPeriod
     ELSE UNCHANGED <<isConnected, lastDataReceived, latestTelemetry,
                      telemetry, manualRelay, throttle, checkDue>>

SimplePublishTelemetry(data) ==
  /\ SubsSettled
  /\ telemetryPath' = data
  /\ SimpleTelemetryCallback(data)
  /\ UNCHANGED <<commandVars, alertsPath, connectionRetryCount, alerts, subs,
                 effectRun, retryTimers, scheduleVars, dialog, manualCalls>>

\* The subscription made on mount is handed the current value of the path.
SimpleInitialSnapshot(s) ==
  /\ s \in subs
  /\ s.fresh
  /\ SimpleTelemetryCallback(telemetryPath)
  /\ subs' = (subs \ {s}) \cup {[s EXCEPT !.fresh = FALSE]}
  /\ UNCHANGED <<commandVars, telemetryPath, alertsPath,
                 connectionRetryCount, alerts, effectRun, retryTimers,
                 scheduleVars, dialog, manualCalls>>

\* sendCommand up to its await: generate the ID, queue the registration and
\* call set() on the control path.
sendCommand(commandType, rnd) == sendCommandWithAck(commandType, rnd)

\* await set(...) returns: the timeout timer is armed, then resolve() is
\* called.
SimpleWriteOk(h) ==
  /\ cmds[h].pc = "landed"
  /\ cmds' = [cmds EXCEPT ![h].pc = "armed",
                          ![h].timerDue = now + CommandTimeout]
  /\ calls' = Invoke(calls, h, Resolved(NoAck))
  /\ UNCHANGED <<now, ms, pendingCommands, registeredIds, controls,
                 ackStore, acked, deleteTimers, sweepDue>>

\* handleToggleSwitch up to its await.  The button is disabled in the states
\* in which the handler returns early, so a tap is taken in any state.
handleToggleSwitch(rnd) ==
  IF Offline
  THEN /\ dialog' = "Not Connected"
       /\ UNCHANGED <<commandVars, monitorVars, scheduleVars, manualCalls>>
  ELSE IF RegistryBusy
  THEN /\ dialog' = "Please Wait"
       /\ UNCHANGED <<commandVars, monitorVars, scheduleVars, manualCalls>>
  ELSE LET newState == ~manualRelay
       IN /\ manualRelay' = newState
          /\ sendCommand("RELAY_CONTROL", rnd)
          /\ manualCalls' = Append(manualCalls,
                                   [h |-> Len(cmds) + 1, value |-> newState,
                                    done |-> FALSE, reverted |-> FALSE])
          /\ UNCHANGED <<telemetryPath, alertsPath, isConnected,
                         lastDataReceived, connectionRetryCount,
                         latestTelemetry, telemetry, alerts, throttle, subs,
                         effectRun, retryTimers, checkDue, scheduleVars,
                         dialog>>

\* handleToggleSwitch behind its await: the catch block runs when the
\* promise was rejected.
ToggleResume(i) ==
  /\ i \in DOMAIN manualCalls
  /\ ~manualCalls[i].done
  /\ calls[manualCalls[i].h] # <<>>
  /\ LET caught == Settlement(manualCalls[i].h).cb = "reject"
     IN /\ IF caught
           THEN /\ dialog' = "Error"
                /\ manualRelay' = ~manualCalls[i].value
           ELSE UNCHANGED <<dialog, manualRelay>>
        /\ manualCalls' = [manualCalls EXCEPT ![i].done = TRUE,
                                              ![i].reverted = caught]
  /\ UNCHANGED <<commandVars, scheduleVars, telemetryPath, alertsPath,
                 isConnected, lastDataReceived, connectionRetryCount,
                 latestTelemetry, telemetry, alerts, throttle, subs,
                 effectRun, retryTimers, checkDue>>

\* A continuation of an await runs before any timer does.
ResumeDue ==
  \E i \in DOMAIN manualCalls :
    ~manualCalls[i].done /\ calls[manualCalls[i].h] # <<>>

SimpleTimerDue ==
  \/ \E h \in DOMAIN cmds : cmds[h].pc = "armed" /\ cmds[h].timerDue <= now
  \/ checkDue <= now
  \/ throttle # "idle"
  \/ ~SubsSettled
  \/ ResumeDue

SimpleTick ==
  /\ now < MaxUptime
  /\ ~SimpleTimerDue
  /\ now' = now + 1
  /\ ms' = ms + 1
  /\ UNCHANGED <<registryVars, appVars>>

SimpleNext ==
  \/ \E data \in ManualTelemetry : SimplePublishTelemetry(data)
  \/ \E s \in subs : SimpleInitialSnapshot(s)
  \/ ThrottleTimer /\ UNCHANGED <<now, ms, registryVars, manualCalls>>
  \/ ConnectionCheck /\ UNCHANGED <<commandVars, manualCalls>>
  \/ \E r \in Suffixes : handleToggleSwitch(r)
  \/ \E i \in DOMAIN manualCalls : ToggleResume(i)
  \/ \E h \in DOMAIN cmds : WriteLand(h) /\ UNCHANGED appVars
  \/ \E h \in DOMAIN cmds : SimpleWriteOk(h) /\ UNCHANGED appVars
  \/ \E h \in DOMAIN cmds : WriteFail(h) /\ UNCHANGED appVars
  \/ \E h \in DOMAIN cmds : TimeoutFire(h) /\ UNCHANGED appVars
  \/ SimpleTick

SpecSimple == MonitorInit /\ [][SimpleNext]_vars


\* ============================================================= properties
Handles == DOMAIN cmds
Settled(h) == calls[h] # <<>>
HasCall(c, h, call) == \E i \in DOMAIN c[h] : c[h][i] = call
ResolveCount(c, ack) ==
  Cardinality({<<h, i>> \in (DOMAIN c) \X (1..3) :
                 i \in DOMAIN c[h] /\ c[h][i] = Resolved(ack)})
AlreadyResolved(ack) == \E h \in Handles : HasCall(calls, h, Resolved(ack))
HeldBy(h) == {id \in DOMAIN pendingCommands : pendingCommands[id].h = h}
NotTerminated(id) == \A h \in Handles : cmds[h].id = id => ~Settled(h)

\* A step in which the acknowledgment listener is called with a snapshot
\* (the value of the acknowledgment path after the step).
Delivery ==
  \/ AckListener
  \/ ForeignAck
  \/ \E o \in AckOutcomes : DeviceAck(o)
  \/ \E t \in deleteTimers : DeleteAck(t)

SoleBearer(h) == \A g \in Handles : g # h => cmds[g].id # cmds[h].id

\* C1: the resolve/reject callbacks of the handle that sendCommandWithAck
\* created for a correlation ID are invoked at most once in total, whatever
\* the interleaving of acknowledgment, timeout timer, expiry sweep and
\* failing store write.
AtMostOneCallback ==
  \A h \in Handles : SoleBearer(h) => Len(calls[h]) <= 1

\* C2: a command whose write did not fail and that no acknowledgment has
\* answered has, once more than 10 s have passed since the call, failed with
\* the timeout error naming its type, and its ID is out of the registry.
TimeoutWithinTenSeconds ==
  \A h \in Handles :
    (/\ now - cmds[h].timestamp > CommandTimeout
     /\ cmds[h].pc # "failed"
     /\ cmds[h].id \notin acked)
    => /\ Settled(h)
       /\ calls[h][1] = TimedOut(cmds[h].type)
       /\ cmds[h].id \notin DOMAIN pendingCommands

\* C3: an acknowledgment record resolves a handle at most once; a delivery
\* of a record that has resolved a handle before resolves nothing, leaves
\* the registry at that ID, the deletion timers of that ID and the record
\* in the store as they were.
DuplicateAckIsNoOp ==
  /\ [](\A h \in Handles :
          Cardinality({i \in DOMAIN calls[h] : calls[h][i].cb = "resolve"}) <= 1)
  /\ [][Delivery =>
          \A k \in DOMAIN ackStore' :
            AlreadyResolved(ackStore'[k]) =>
              LET id == ackStore'[k].commandId
              IN /\ ResolveCount(calls', ackStore'[k]) = 1
                 /\ \A h \in Handles :
                      HasCall(calls, h, Resolved(ackStore'[k]))
                      => calls'[h] = calls[h]
                 /\ id \notin DOMAIN pendingCommands
                 /\ id \notin DOMAIN pendingCommands'
                 /\ k \in DOMAIN ackStore /\ ackStore[k] = ackStore'[k]
                 /\ {t \in deleteTimers' : t.id = id}
                      = {t \in deleteTimers : t.id = id}
       ]_vars
  /\ [][(AckListener /\ \A k \in DOMAIN ackStore : AlreadyResolved(ackStore[k]))
          => UNCHANGED <<pendingCommands, calls, deleteTimers, ackStore>>
       ]_vars

\* C3 witness: two records that have each resolved a handle are in the store
\* together, so the record written first was in two delivered snapshots.
DuplicateAckDelivered ==
  \E k1, k2 \in DOMAIN ackStore :
    k1 # k2 /\ AlreadyResolved(ackStore[k1]) /\ AlreadyResolved(ackStore[k2])

\* C4: every call of sendCommandWithAck obtains an ID different from every
\* ID generated before.
UniqueCommandIds ==
  \A h1, h2 \in Handles : h1 # h2 => cmds[h1].id # cmds[h2].id

\* C5: once a handle has been rejected by the timeout, no entry of the
\* registry holds it, no later call resolves it, and a delivery of
\* acknowledgments never adds an entry to the registry.
TimeoutIsFinal ==
  /\ [](\A h \in Handles : \A i \in DOMAIN calls[h] :
          calls[h][i].why = "timed out" =>
            /\ HeldBy(h) = {}
            /\ \A j \in DOMAIN calls[h] : j > i => calls[h][j].cb # "resolve")
  /\ [][Delivery => DOMAIN pendingCommands' \subseteq DOMAIN pendingCommands]_vars

\* C5 witness: a handle failed by the timeout, and the acknowledgment of its
\* command reached the store (and the listener) afterwards.
LateAckAfterTimeout ==
  \E h \in Handles :
    /\ calls[h] = <<TimedOut(cmds[h].type)>>
    /\ cmds[h].id \in DOMAIN ackStore
    /\ cmds[h].pc = "fired"

\* C6: the ID on the control path was registered before; while the write
\* call has not returned and no terminal event has hit the ID, the registry
\* holds the ID, and an acknowledgment delivered then resolves its handle.
RegisteredBeforeWrite ==
  /\ [](controls # None => controls.commandId \in registeredIds)
  /\ [](\A h \in Handles :
          (cmds[h].pc \in {"writing", "landed"} /\ NotTerminated(cmds[h].id))
          => cmds[h].id \in DOMAIN pendingCommands)
  /\ [][Delivery =>
          \A h \in Handles :
            (/\ cmds[h].pc = "landed"
             /\ NotTerminated(cmds[h].id)
             /\ cmds[h].id \in DOMAIN ackStore')
            => /\ cmds[h].id \notin DOMAIN pendingCommands'
               /\ \E g \in Handles :
                    /\ cmds[g].id = cmds[h].id
                    /\ calls'[g] = <<Resolved(ackStore'[cmds[h].id])>>
       ]_vars

\* C6 witness: a handle resolved by an acknowledgment while its write call
\* had not returned.
AckBeforeWriteReturned ==
  \E h \in Handles :
    /\ cmds[h].pc = "landed"
    /\ cmds[h].id \in DOMAIN ackStore
    /\ calls[h] = <<Resolved(ackStore[cmds[h].id])>>

\* C7: the step in which the store write fails removes the registration and
\* invokes reject with the write error, and no timeout timer is ever armed
\* for a command whose write failed.
WriteFailureIsImmediate ==
  /\ [][\A h \in Handles :
          WriteFail(h) =>
            /\ cmds[h].id \notin DOMAIN pendingCommands'
            /\ calls'[h] = Append(calls[h], WriteError)
            /\ cmds'[h].timerDue = NoTimer
       ]_vars
  /\ [](\A h \in Handles :
          cmds[h].pc = "failed" =>
            /\ cmds[h].timerDue = NoTimer
            /\ HasCall(calls, h, WriteError))

\* C7 witness: a command whose write failed before the timeout could have
\* passed, rejected with the write error.
WriteFailedEarly ==
  \E h \in Handles :
    /\ cmds[h].pc = "failed"
    /\ calls[h] = <<WriteError>>
    /\ now - cmds[h].timestamp < CommandTimeout

\* C8: a command registered more than 15 s + 5 s ago is out of the registry
\* and its handle is settled.
ReclaimedInBoundedTime ==
  \A h \in Handles :
    now - cmds[h].timestamp > ExpiryAge + SweepPeriod
    => Settled(h) /\ HeldBy(h) = {}

\* C9: a delivered acknowledgment whose commandId has a pending entry
\* resolves that entry's handle with the acknowledgment, removes the entry
\* and arms the deletion of the record for 5 s later; the record stays in
\* the store until that timer fires.
AckResolvesAndDeletesAfterGrace ==
  /\ [][Delivery =>
          \A k \in DOMAIN ackStore' :
            ackStore'[k].commandId \in DOMAIN pendingCommands =>
              LET id == ackStore'[k].commandId
                  h == pendingCommands[id].h
              IN /\ calls'[h] = Append(calls[h], Resolved(ackStore'[k]))
                 /\ id \notin DOMAIN pendingCommands'
                 /\ [id |-> id, since |-> now, due |-> now + AckGrace]
                      \in deleteTimers'
       ]_vars
  /\ [](\A t \in deleteTimers :
          /\ t.due = t.since + AckGrace
          /\ t.id \in DOMAIN ackStore)
  /\ [][\A t \in deleteTimers :
          DeleteAck(t) => now' >= t.since + AckGrace /\ t.id \notin DOMAIN ackStore'
       ]_vars

\* C9 witness: a handle resolved by an acknowledgment whose record has been
\* deleted from the store since.
AckDeletedAfterGrace ==
  \E h \in Handles :
    /\ calls[h] # <<>>
    /\ calls[h][1].cb = "resolve"
    /\ calls[h][1].ack.commandId = cmds[h].id
    /\ cmds[h].id \notin DOMAIN ackStore
    /\ now >= AckGrace

\* C10: a delivered acknowledgment whose commandId has no pending entry
\* changes nothing: the registry loses only the matched IDs, only handles of
\* matched entries are called, deletions are armed for matched IDs only.
UnmatchedAckIgnored ==
  [][Delivery =>
       LET matched == {ackStore'[k].commandId : k \in DOMAIN ackStore'}
                        \cap DOMAIN pendingCommands
       IN /\ DOMAIN pendingCommands' = DOMAIN pendingCommands \ matched
          /\ \A id \in DOMAIN pendingCommands' :
               pendingCommands'[id] = pendingCommands[id]
          /\ \A h \in Handles :
               calls'[h] # calls[h] => \E id \in matched : pendingCommands[id].h = h
          /\ \A t \in deleteTimers' \ deleteTimers : t.id \in matched
    ]_vars

\* C10 witness: the listener has been given a record of an ID that was
\* never issued and a record of a command that had already timed out.
UnmatchedAckDelivered ==
  /\ ForeignId \in DOMAIN ackStore
  /\ \E h \in Handles :
       /\ calls[h] = <<TimedOut(cmds[h].type)>>
       /\ cmds[h].id \in DOMAIN ackStore
\* ------------------------------------------------- liveness monitor claims
\* C11: the state changes from Connected to Disconnected only when at least
\* 15 s have passed since the last accepted telemetry update; no other event
\* (a subscription error, a failed schedule write, a failed listener setup)
\* disconnects earlier.
DisconnectedOnlyWhenStale ==
  [][(isConnected /\ ~isConnected') => now - lastDataReceived >= StaleAfter]_vars

\* A step in which the telemetry listener is called with data: a write of
\* the telemetry path, or the first snapshot of a new subscription.
TelemetryDelivered(data) ==
  \/ PublishTelemetry(data) /\ subs # {}
  \/ data = telemetryPath /\ \E s \in subs : InitialSnapshots(s)

TelemetryInputs == MonitorTelemetry \cup {telemetryPath}

\* C12: when a telemetry update is accepted by the sanitizer the state
\* becomes Connected, lastDataReceived is the current time and
\* connectionRetryCount is 0; a telemetry record that is null or rejected
\* changes none of the three.
AcceptedTelemetryConnects ==
  [][\A data \in TelemetryInputs :
       TelemetryDelivered(data) =>
         IF validateTelemetryData(data, now).ok
         THEN isConnected' /\ lastDataReceived' = now
                /\ connectionRetryCount' = 0
         ELSE UNCHANGED <<isConnected, lastDataReceived,
                          connectionRetryCount>>]_vars

\* An update was accepted after a subscription error: the retry count is
\* back at 0 and the listeners effect has not yet run again.
AcceptedAfterError ==
  /\ isConnected
  /\ lastDataReceived = now
  /\ connectionRetryCount = 0
  /\ effectRun > 0

\* What the claims call the held application state: the telemetry snapshot,
\* the alert list, connectivity and the time of the last accepted update.
heldState == <<latestTelemetry, telemetry, alerts, isConnected,
               lastDataReceived>>

\* validateAlertData turns the whole batch down: a value that is there and
\* is not an object.
AlertBatchRejected(data) == data.t \notin {"null", "object"}

\* C18: when a telemetry or alert update that is malformed and rejected by
\* validation is delivered to its listener, the telemetry snapshot, the alert
\* list, isConnected and lastDataReceived are all left as they were.
RejectedUpdateDropped ==
  [][/\ \A data \in MonitorTelemetry :
          (/\ PublishTelemetry(data)
           /\ subs # {}
           /\ data.t # "null"
           /\ ~validateTelemetryData(data, now).ok)
            => UNCHANGED heldState
     /\ \A data \in MonitorAlerts :
          (/\ PublishAlerts(data)
           /\ subs # {}
           /\ AlertBatchRejected(data))
            => UNCHANGED heldState]_vars

\* ---------------------------------------------------------- sanitizer claims
\* C13: in every record validateTelemetryData returns for an object, each
\* numeric field is a finite number (never NaN, undefined or infinite), and
\* current, power, energy, detectedWattage, expectedCurrent and
\* currentThreshold are not negative.
SanitizedNumbersFinite ==
  latestTelemetry.ok =>
    /\ \A k \in NumericFields : IsFinite(latestTelemetry.v[k])
    /\ \A k \in ClampedFields \cup {"currentThreshold"} :
         ~Less(latestTelemetry.v[k], Num(0))

\* a >= b on numbers
AtLeast(a, b) == ~isNaN(a) /\ ~isNaN(b) /\ ~Less(a, b)

\* The alerts listener has been handed the batch in the store.
AlertsDelivered == \A s \in subs : ~s.fresh

\* C14: the list validateAlertData returns is sorted by timestamp in
\* descending order, has at most 10 elements and holds no entry whose type,
\* message or timestamp is missing or falsy; of more than 10 valid entries it
\* holds the 10 with the largest timestamps.
AlertsSortedAndCapped ==
  AlertsDelivered =>
    /\ Len(alerts) <= MaxAlertsShown
    /\ \A i \in 1..(Len(alerts) - 1) :
         AtLeast(alerts[i].timestamp, alerts[i + 1].timestamp)
    /\ \A i \in DOMAIN alerts :
         /\ alerts[i].type # ""
         /\ alerts[i].message # ""
         /\ Truthy(alerts[i].timestamp)
    /\ alertsPath.t = "object" =>
         LET valid == SelectSeq(alertsPath.f, AlertKept)
         IN /\ Len(alerts) = IF Len(valid) < MaxAlertsShown
                             THEN Len(valid) ELSE MaxAlertsShown
            /\ \A i \in DOMAIN alerts :
                 Cardinality({j \in DOMAIN valid :
                                Less(alerts[i].timestamp,
                                     ToNumber(valid[j].timestamp))}) < i

\* ------------------------------------------------- schedule planner claims
\* The minute of the day each text of TimeTexts asks for; the texts that
\* are not listed are no 24-hour times.
RequestedMinute ==
  (<<"2", "3", ":", "5", "0">> :> 1430) @@ (<<"0", "0", ":", "1", "0">> :> 10)
    @@ (<<"0", "0", ":", "0", "0">> :> 0) @@ (<<"1", "2", ":", "0", "0">> :> 720)
    @@ (<<"7", ":", "0", "5">> :> 425)
    @@ (<<" ", "9", ":", "3", "0", " ">> :> 570)

DaySeconds == 86400

\* the clock difference from a to b modulo 24 hours, in 1..1440 minutes
ClockSpan(a, b) == ((b - a - 1) % 1440) + 1

LastWrite(writes) == writes[Len(writes)].value

\* C15: for valid HH:MM start and end texts and every now, the schedule
\* handleScheduleSet writes starts strictly after now at the requested time
\* of day (its next occurrence), ends strictly after it starts, and spans the
\* clock difference from start to end modulo 24 hours, in (0, 24 h].
ScheduleSpanIsClockDifference ==
  [][(/\ handleScheduleSet
      /\ scheduleStart \in DOMAIN RequestedMinute
      /\ scheduleEnd \in DOMAIN RequestedMinute)
     => /\ Len(scheduleWrites') = Len(scheduleWrites) + 1
        /\ LET w == LastWrite(scheduleWrites')
               nowSeconds == now * TickSeconds
           IN /\ w.active
              /\ w.startTime > nowSeconds
              /\ w.startTime <= nowSeconds + DaySeconds
              /\ w.startTime % DaySeconds = RequestedMinute[scheduleStart] * 60
              /\ w.endTime > w.startTime
              /\ w.endTime - w.startTime =
                   60 * ClockSpan(RequestedMinute[scheduleStart],
                                  RequestedMinute[scheduleEnd])]_vars

\* 23:50 to 00:10 asked for after 23:50: a write of 20 minutes, starting
\* tomorrow, is in flight.
OvernightScheduleWritten ==
  /\ scheduleStart = <<"2", "3", ":", "5", "0">>
  /\ scheduleEnd = <<"0", "0", ":", "1", "0">>
  /\ now % DayTicks > 1430 * MinuteTicks
  /\ scheduleWrites # <<>>
  /\ scheduleWrites[1].op = "set"
  /\ scheduleWrites[1].value.endTime - scheduleWrites[1].value.startTime = 1200

\* C16: handleScheduleSet writes nothing to the schedule path when a time
\* text is empty or no valid 24-hour time, and never a span above 24 hours;
\* handleQuickSchedule writes nothing when the duration is not in (0, 1440]
\* minutes, and start = now, end = now + duration when it is.
InvalidScheduleNotWritten ==
  [][/\ (/\ handleScheduleSet
         /\ \/ scheduleStart \notin DOMAIN RequestedMinute
            \/ scheduleEnd \notin DOMAIN RequestedMinute)
        => UNCHANGED <<scheduleWrites, schedule>>
     /\ \A i \in DOMAIN scheduleWrites' :
          scheduleWrites'[i].op = "set" =>
            scheduleWrites'[i].value.endTime
              - scheduleWrites'[i].value.startTime <= DaySeconds
     /\ \A minutes \in QuickMinutes :
          handleQuickSchedule(minutes) =>
            IF minutes > 0 /\ minutes <= 1440
            THEN /\ Len(scheduleWrites') = Len(scheduleWrites) + 1
                 /\ LastWrite(scheduleWrites') =
                      [active |-> TRUE, startTime |-> now * TickSeconds,
                       endTime |-> now * TickSeconds + minutes * 60]
            ELSE UNCHANGED <<scheduleWrites, schedule>>]_vars

\* 25:00 was refused: the format message is up and nothing was written.
InvalidTimeRefused ==
  /\ scheduleStart = <<"2", "5", ":", "0", "0">>
  /\ dialog = UseTimeFormat
  /\ scheduleWrites = <<>>
  /\ schedule = NoSchedule

\* ------------------------------------------------------ relay control claims
\* The command of call i failed: its promise was rejected (timeout, expiry,
\* write failure) or resolved with an acknowledgment that is not processed
\* and whose result is not NO_CHANGE_REQUIRED.
ControlFailed(first) ==
  \/ first.cb = "reject"
  \/ ~first.ack.processed /\ first.ack.result # "NO_CHANGE_REQUIRED"

\* C17: when handleManualControl(value) completes, the relay state on display
\* is back at its value from before the command (the switch passes the
\* opposite of that value) when the command failed, and it is the requested
\* value when the acknowledgment's result is NO_CHANGE_REQUIRED.
RelayRevertedOrAsRequested ==
  [][\A i \in DOMAIN manualCalls :
       ManualControlResume(i) =>
         LET first == Settlement(manualCalls[i].h)
             value == manualCalls[i].value
         IN /\ ControlFailed(first) => manualRelay' = ~value
            /\ (first.cb = "resolve"
                  /\ first.ack.result = "NO_CHANGE_REQUIRED")
                 => manualRelay' = value]_vars

\* ------------------------------------------------------ simple client claims
\* C19: in the simple client, once the 10 s timer of a command issued by
\* handleToggleSwitch has fired, the promise of sendCommand is settled by the
\* timeout rejection, and a handleToggleSwitch that is through has put the
\* relay state back (its catch block ran).
TimeoutSurfacedAndReverted ==
  \A i \in DOMAIN manualCalls :
    LET h == manualCalls[i].h
    IN cmds[h].pc = "fired" =>
         /\ Settlement(h) = TimedOut(cmds[h].type)
         /\ manualCalls[i].done => manualCalls[i].reverted

\* The age by which the spec has an entry out of the registry: the expiry
\* threshold and one period of the sweep.
RemovalBound == ExpiryAge + SweepPeriod

\* C20: in the simple client no command stays in the registry for longer
\* than the removal bound, whether its store write settles or not (the
\* toggle is disabled while the registry is not empty).
RegistryEntriesExpire ==
  \A id \in DOMAIN pendingCommands :
    now - pendingCommands[id].timestamp <= RemovalBound

\* ------------------------------------------------------------ sweep claims
\* C21: a run of the cleanup interval removes from the registry exactly the
\* entries whose timestamp lies more than 15 s back and calls reject with
\* the expiry error on exactly their handles; every younger entry stays as
\* it was and no other handle is called.
SweepRemovesExactlyExpired ==
  [][CleanupSweep =>
       /\ \A id \in DOMAIN pendingCommands :
            IF now - pendingCommands[id].timestamp > ExpiryAge
            THEN /\ id \notin DOMAIN pendingCommands'
                 /\ calls'[pendingCommands[id].h]
                      = Append(calls[pendingCommands[id].h], Expired)
            ELSE /\ id \in DOMAIN pendingCommands'
                 /\ pendingCommands'[id] = pendingCommands[id]
                 /\ calls'[pendingCommands[id].h]
                      = calls[pendingCommands[id].h]
       /\ DOMAIN pendingCommands' \subseteq DOMAIN pendingCommands
       /\ \A h \in DOMAIN calls :
            (\A id \in DOMAIN pendingCommands : pendingCommands[id].h # h)
              => calls'[h] = calls[h]]_vars

\* A sweep has failed one command and kept a younger one.
SweepKeptYounger ==
  \E h1, h2 \in DOMAIN cmds :
    /\ calls[h1] = <<Expired>>
    /\ cmds[h1].id \notin DOMAIN pendingCommands
    /\ cmds[h2].id \in DOMAIN pendingCommands
    /\ cmds[h2].timestamp > cmds[h1].timestamp
    /\ calls[h2] = <<>>
    /\ sweepDue = now + SweepPeriod

\* ---------------------------------------------------- staleness check claims
\* C22: once a telemetry update has been accepted, the state is not Connected
\* any more when the periodic check has run with more than 15 s gone since
\* the last accepted update, which is no later than 5 s after the 15 s were
\* exceeded; while no update has ever been accepted the periodic check
\* leaves the state as it is.
StaleDisconnectsAtNextCheck ==
  /\ [](isConnected /\ lastDataReceived > 0
          => now - lastDataReceived <= StaleAfter + CheckPeriod)
  /\ [][ConnectionCheck =>
          /\ (lastDataReceived > 0 /\ now - lastDataReceived > StaleAfter)
               => ~isConnected'
          /\ lastDataReceived = 0 => UNCHANGED isConnected]_vars

\* The periodic check, and no subscription error, has ended a connection.
DisconnectedByCheck ==
  /\ ~isConnected
  /\ lastDataReceived > 0
  /\ now - lastDataReceived = StaleAfter + CheckPeriod
  /\ checkDue = now + CheckPeriod
  /\ dialog = NoDialog

\* -------------------------------------------------------- retry claims
\* The step makes a subscription.
Subscribed == \E s \in subs' \ subs : s.fresh

\* The step is the firing of a backoff timer whose delay has passed.
BackoffElapsed == \E tm \in retryTimers : tm.due <= now /\ tm \notin retryTimers'

\* The listeners effect runs because errors have raised the retry count.
RerunAfterError == ~EffectSettled /\ connectionRetryCount > effectRun

\* C23: a telemetry subscription error raises connectionRetryCount by one,
\* and a subscription that follows an error is made only by the firing of
\* the backoff timer, hence not before the backoff delay has passed.
ResubscribedAfterBackoff ==
  [][/\ \A s \in subs :
          SubscriptionError(s)
            => connectionRetryCount' = connectionRetryCount + 1
     /\ (Subscribed /\ (RerunAfterError \/ retryTimers # {}))
          => BackoffElapsed]_vars

\* C24: once connectionRetryCount has reached 5, a further subscription
\* error is followed by no subscription: with the count above 5 the only
\* step that subscribes is the firing of a backoff timer armed before.
NoResubscriptionBeyondLimit ==
  [][(connectionRetryCount > MaxRetries /\ Subscribed /\ RerunAfterError)
        => BackoffElapsed]_vars

\* ------------------------------------------------- boolean and time fields
\* The table of the boolean fields: a boolean is itself, "true" is true,
\* "false" is false, a number is true unless it is zero, all else is false.
BooleanTable(v) ==
  CASE v.t = "boolean" -> v.b
    [] v.t = "number" -> v # Num(0)
    [] v = Str("true") -> TRUE
    [] OTHER -> FALSE

\* C25: in the record validateTelemetryData returns, every boolean field is
\* what the table gives for the value read from the store: the boolean
\* itself, true for "true", false for "false", true for a number other than
\* zero, false for zero and false for any other string, null, a missing
\* field or an object.
BooleanFieldsFollowTable ==
  latestTelemetry.ok =>
    \A k \in BooleanFields :
      latestTelemetry.v[k] = Bool(BooleanTable(telemetryPath.f[k]))

\* The table with the string compared in any letter case.
BooleanTableAnyCase(v) ==
  CASE v.t = "boolean" -> v.b
    [] v.t = "number" -> v # Num(0)
    [] v \in {Str("true"), Str("TRUE"), Str("True")} -> TRUE
    [] OTHER -> FALSE

\* C25, amended: every boolean field of the returned record is the boolean
\* itself, true for the string "true" written in any letter case, true for
\* a number other than zero, and false for zero, any other string, null, a
\* missing field or an object.
BooleanFieldsFollowTableAnyCase ==
  latestTelemetry.ok =>
    \A k \in BooleanFields :
      latestTelemetry.v[k] = Bool(BooleanTableAnyCase(telemetryPath.f[k]))

\* The sanitizer was handed "TRUE" in a boolean field and answered true.
UppercaseTrueAccepted ==
  /\ latestTelemetry.ok
  /\ \E k \in BooleanFields :
       /\ telemetryPath.f[k] = Str("TRUE")
       /\ latestTelemetry.v[k] = Bool(TRUE)

\* v is a number inside [now - 3600, now + 3600], the ends included.
InsideWindow(v, t) ==
  /\ v.t = "number"
  /\ IsFinite(v)
  /\ t * TickSeconds - TimestampWindow <= v.n
  /\ v.n <= t * TickSeconds + TimestampWindow

\* C26: in the record validateTelemetryData returns, timestamp and heartbeat
\* are the value read from the store when it is a number in
\* [now - 3600, now + 3600], the two ends included, and now when it lies
\* outside, is missing or is no number; either way they are within 3600 s
\* of now.
TimestampsWithinWindow ==
  latestTelemetry.ok =>
    \A k \in TimestampFields :
      /\ latestTelemetry.v[k] =
           IF InsideWindow(telemetryPath.f[k], now)
           THEN telemetryPath.f[k]
           ELSE Num(now * TickSeconds)
      /\ InsideWindow(latestTelemetry.v[k], now)

\* A timestamp on the upper end of the window was kept and a heartbeat one
\* second below the lower end was replaced by now.
WindowEndKept ==
  /\ latestTelemetry.ok
  /\ telemetryPath.f["timestamp"] = Num(now * TickSeconds + TimestampWindow)
  /\ latestTelemetry.v["timestamp"] = telemetryPath.f["timestamp"]
  /\ telemetryPath.f["heartbeat"] = Num(now * TickSeconds - TimestampWindow - 1)
  /\ latestTelemetry.v["heartbeat"] = Num(now * TickSeconds)

\* ------------------------------------------------------ relay display claims
\* Every command that was sent has had its terminal event.
CommandsSettled == cmds # <<>> /\ \A h \in DOMAIN cmds : calls[h] # <<>>

\* The step runs the throttled update: at once, the window being closed, or
\* at the end of the window for an update that was put off.
TelemetryFlushed == throttle # "open" /\ throttle' = "open"

\* C27: when the throttled update runs after the terminal event of a
\* command, the telemetry on display is the latest accepted one and the
\* relay state on display is the relayState of that telemetry.
DisplayFollowsFlushedTelemetry ==
  [][(CommandsSettled /\ TelemetryFlushed) =>
       /\ telemetry' = latestTelemetry'
       /\ manualRelay' = latestTelemetry'.v["relayState"].b]_vars

\* A command has timed out with the switched state still on display, and
\* telemetry accepted later has put the device's state there.
DisplayCorrectedAfterTimeout ==
  \E i \in DOMAIN manualCalls :
    LET h == manualCalls[i].h
    IN /\ manualCalls[i].done
       /\ ~manualCalls[i].reverted
       /\ cmds[h].pc = "fired"
       /\ telemetry.ok
       /\ telemetry = latestTelemetry
       /\ telemetry.v["timestamp"].n > cmds[h].timerDue * TickSeconds
       /\ manualRelay = telemetry.v["relayState"].b
       /\ manualRelay # manualCalls[i].value

\* ------------------------------------------------------ subscription claims
\* C28: the client holds at most one live subscription made by
\* setupFirebaseListeners at any time, whatever errors, backoff timers and
\* effect runs came before: every older one has been unsubscribed.
AtMostOneSubscription == Cardinality(subs) <= 1

\* ------------------------------------------------------------ toggle claims
\* C29: in the simple client the registry never holds more than one pending
\* command, and handleToggleSwitch registers and writes a command only in a
\* state where the registry is empty.
AtMostOnePending ==
  /\ [](Cardinality(DOMAIN pendingCommands) <= 1)
  /\ [][\A r \in Suffixes :
          (handleToggleSwitch(r) /\ cmds' # cmds)
            => pendingCommands = EmptyMap]_vars

\* A second command was registered after the first had left the registry.
SecondCommandPending ==
  /\ Len(cmds) = 2
  /\ cmds[1].id \notin DOMAIN pendingCommands
  /\ cmds[2].id \in DOMAIN pendingCommands

\* C30: a relay command is registered, and its write called, only in a state
\* that is Connected; handleManualControl and handleToggleSwitch called
\* without a connection leave the registry, the handles, the control path
\* and the relay state on display as they are.
OfflineTapRefused ==
  [][/\ Len(cmds') > Len(cmds) => isConnected
     /\ \A r \in Suffixes :
          (/\ ~isConnected
           /\ handleManualControl(~manualRelay, r) \/ handleToggleSwitch(r))
            => UNCHANGED <<cmds, calls, pendingCommands, registeredIds,
                           controls, manualRelay>>]_vars

\* The switch was tapped without a connection: the handler has put up its
\* dialog and nothing was sent.
TapRefusedOffline ==
  /\ ~isConnected
  /\ dialog = ConnectionError
  /\ cmds = <<>>
  /\ pendingCommands = EmptyMap
  /\ controls = None
  /\ ~manualRelay

====
